---- MODULE Spec2Model ----
(***************************************************************************)
(* Model of the mock-ble scripts.                                          *)
(*   bluetooth_scanner.py   : the scan loop that merges sightings into the *)
(*                            registry all_devices and saves it.           *)
(*   continuous_ble_mock.py : BLEMockBroadcaster, which loads the registry *)
(*                            and simulates cycles of visible devices.     *)
(* Timestamps (ISO strings of datetime.now()) are modelled as clock ticks. *)
(* Python's None is the empty tuple where an integer may stand (rssi) and  *)
(* a reserved string where a string may stand (name, address).             *)
(***************************************************************************)
EXTENDS Integers, Sequences, FiniteSets, TLC

\* ---------------------------------------------------------------- bounds
\* scan cycles the scanner loop is followed for
MaxScans == 2
\* cycles the broadcaster loop is followed for
MaxCycles == 2

\* ------------------------------------------------------- program constants
MIN_VISIBLE_DEVICES == 10
MAX_SAMPLE == 15
RSSI_LO == -50
RSSI_HI == -25
RSSI_FLUCTUATION == 5

\* ------------------------------------------------------------ Python values
None == <<>>
NoneStr == "<None>"
Some(v) == <<v>>

Max(a, b) == IF a >= b THEN a ELSE b
Min(a, b) == IF a <= b THEN a ELSE b

\* `x or "Unknown"` : None and the empty string are falsy
OrUnknown(x) == IF x = NoneStr \/ x = "" THEN "Unknown" ELSE x

\* ------------------------------------------------- what discovery can return
Addresses == {"A", "B", NoneStr}
DeviceNames == {NoneStr, "", "Unknown", "Foo", "Bar"}
DeviceRssis == {None, Some(-60)}
BLEDevices == [address : Addresses, name : DeviceNames, rssi : DeviceRssis]
\* lengths of the list one discovery returns
BatchSizes == {0, 1, 2}
\* the devices discovery returns where the saves can fail (SpecSave)
PlainDevices == {d \in BLEDevices : d.name = "Foo" /\ d.rssi = Some(-60)}

VARIABLES
    pc,            \* position of bluetooth_scanner.main
    all_devices,   \* main: the registry, address -> record
    scan_count,    \* main: scan_count
    timestamp,     \* main: timestamp of the cycle in progress
    devices,       \* main: number of discovered devices the for loop has yet to
                   \* visit (each device is drawn when the loop reaches it)
    device,        \* main: the loop variable of the for loop (None before it)
    now,           \* the clock datetime.now() reads
    file,          \* content of bluetooth_devices.json (None: no file)
    merges,        \* history: number of merges performed per address
    spc,                  \* position of BLEMockBroadcaster.run
    self_all_devices,     \* BLEMockBroadcaster.all_devices
    self_device_rssi,     \* BLEMockBroadcaster.device_rssi
    self_visible_devices, \* BLEMockBroadcaster.visible_devices
    cycle,                \* run: cycle
    temp_file             \* content of /tmp/mock_ble_live.json (None: no file)

scanvars == <<pc, all_devices, scan_count, timestamp, devices, device, merges>>
simvars == <<spc, self_all_devices, self_device_rssi, self_visible_devices, cycle,
             temp_file>>
vars == <<scanvars, now, file, simvars>>

\* ---------------------------------------------------------- the merge rules
\* lines 80-90: the record stored for an address not yet in the registry
NewRecord(address, name, rssi, ts) ==
    [name |-> name, address |-> address, rssi |-> rssi, last_seen |-> ts,
     first_seen |-> ts, times_seen |-> 1]

\* variant: the incoming name always replaces the stored one
MergedName_Overwrite(stored, name) == name

\* line 97: the name kept by a merge into an existing record
MergedName(stored, name) ==
    IF name # "Unknown" /\ stored = "Unknown" THEN name ELSE stored

\* variant: times_seen is not incremented
UpdatedRecord_NoCount(rec, name, rssi, ts) ==
    [rec EXCEPT !.last_seen = ts,
                !.rssi = rssi,
                !.name = MergedName(rec.name, name)]

\* variant: the update also rewrites first_seen
UpdatedRecord_ResetsFirstSeen(rec, name, rssi, ts) ==
    [rec EXCEPT !.last_seen = ts,
                !.first_seen = ts,
                !.rssi = rssi,
                !.times_seen = rec.times_seen + 1,
                !.name = MergedName(rec.name, name)]

\* variant: a sighting without rssi keeps the stored rssi
UpdatedRecord_KeepsRssi(rec, name, rssi, ts) ==
    [rec EXCEPT !.last_seen = ts,
                !.rssi = IF rssi = None THEN rec.rssi ELSE rssi,
                !.times_seen = rec.times_seen + 1,
                !.name = MergedName(rec.name, name)]

\* lines 94-98: the record after a merge into an existing one
UpdatedRecord(rec, name, rssi, ts) ==
    [rec EXCEPT !.last_seen = ts,
                !.rssi = rssi,
                !.times_seen = rec.times_seen + 1,
                !.name = MergedName(rec.name, name)]

\* lines 76-99: one pass of the for loop body
Merge(registry, d, ts) ==
    LET address == d.address
        name == OrUnknown(d.name)
        rssi == d.rssi
    IN IF address \notin DOMAIN registry
       THEN [a \in DOMAIN registry \cup {address} |->
                IF a = address THEN NewRecord(address, name, rssi, ts)
                ELSE registry[a]]
       ELSE [registry EXCEPT ![address] = UpdatedRecord(@, name, rssi, ts)]

\* line 38: json.dump turns a None key into "null"
JsonKey(k) == IF k = NoneStr THEN "null" ELSE k
JsonDump(registry) ==
    [k \in {JsonKey(a) : a \in DOMAIN registry} |->
        LET a == CHOOSE a \in DOMAIN registry : JsonKey(a) = k IN registry[a]]

\* json.load of what json.dump wrote
JsonLoad(content) == content

\* a file is None (absent), <<content>>, or what a write that failed after
\* open(filepath, "w") leaves behind: nothing json.load accepts
Truncated == <<<<>>, "truncated">>

\* variant: json.dump(..., skipkeys=True) leaves out the keys that are no
\* strings
save_devices_SkipKeys(registry) ==
    Some(JsonDump([a \in DOMAIN registry \ {NoneStr} |-> registry[a]]))

\* lines 35-38: the file after save_devices returned
save_devices(registry) == Some(JsonDump(registry))

\* lines 24-32: {} when there is no file or json.load rejects it
load_existing_devices(f) ==
    IF f = None \/ f = Truncated THEN <<>> ELSE JsonLoad(f[1])

\* ------------------------------------------------------------ scanner loop
Init ==
    /\ pc = "loop"
    /\ all_devices = <<>>
    /\ scan_count = 0
    /\ timestamp = 0
    /\ devices = 0
    /\ device = None
    /\ now = 1
    /\ file = None
    /\ merges = [a \in Addresses |-> 0]
    /\ spc = "start"
    /\ self_all_devices = <<>>
    /\ self_device_rssi = <<>>
    /\ self_visible_devices = <<>>
    /\ cycle = 0
    /\ temp_file = None

\* lines 63-67: top of the while loop
ScanStart ==
    /\ pc = "loop"
    /\ scan_count < MaxScans
    /\ scan_count' = scan_count + 1
    /\ timestamp' = now
    /\ pc' = "scan"
    /\ UNCHANGED <<all_devices, devices, device, now, file, merges>>
    /\ UNCHANGED simvars

\* line 70: discovery returns a list of devices
Discover ==
    /\ pc = "scan"
    /\ \E n \in BatchSizes : devices' = n
    /\ pc' = "merge"
    /\ UNCHANGED <<all_devices, scan_count, timestamp, device, now, file, merges>>
    /\ UNCHANGED simvars

\* line 70 raising: the cycle is skipped, control is in the handler
DiscoverFails ==
    /\ pc = "scan"
    /\ pc' = "except"
    /\ UNCHANGED <<all_devices, scan_count, timestamp, devices, device, now, file, merges>>
    /\ UNCHANGED simvars

\* lines 75-99: the for loop merges the next device, one of `found`
MergeOf(found) ==
    /\ pc = "merge"
    /\ devices > 0
    /\ \E d \in found :
        /\ all_devices' = Merge(all_devices, d, timestamp)
        /\ merges' = [merges EXCEPT ![d.address] = @ + 1]
        /\ device' = d
    /\ devices' = devices - 1
    /\ UNCHANGED <<pc, scan_count, timestamp, now, file>>
    /\ UNCHANGED simvars

MergeOne == MergeOf(BLEDevices)

\* line 102: save after each scan
Save ==
    /\ pc = "merge"
    /\ devices = 0
    /\ file' = save_devices(all_devices)
    /\ pc' = "sleep"
    /\ UNCHANGED <<all_devices, scan_count, timestamp, devices, device, now, merges>>
    /\ UNCHANGED simvars

\* line 102 raising: open fails and the file stays as it was, or the write
\* fails after open truncated it; control is in the handler
SaveFails ==
    /\ pc = "merge"
    /\ devices = 0
    /\ \/ file' = file
       \/ file' = Truncated
    /\ pc' = "except"
    /\ UNCHANGED <<all_devices, scan_count, timestamp, devices, device, now, merges>>
    /\ UNCHANGED simvars

\* lines 108-110: the handler prints the warning
ScanError ==
    /\ pc = "except"
    /\ pc' = "sleep"
    /\ UNCHANGED <<all_devices, scan_count, timestamp, devices, device, now, file, merges>>
    /\ UNCHANGED simvars

\* line 113: wait before the next scan
Sleep ==
    /\ pc = "sleep"
    /\ now' = now + 1
    /\ pc' = "loop"
    /\ UNCHANGED <<all_devices, scan_count, timestamp, devices, device, file, merges>>
    /\ UNCHANGED simvars

\* lines 115-141: Ctrl+C while main's own code runs (Python before 3.11):
\* KeyboardInterrupt is raised there, the handler makes the final save and
\* prints the summary; main returns and the locals of the loop are gone
Interrupt ==
    /\ pc \in {"loop", "merge", "except"}
    /\ file' = save_devices(all_devices)
    /\ pc' = "stopped"
    /\ timestamp' = 0
    /\ devices' = 0
    /\ device' = None
    /\ UNCHANGED <<all_devices, scan_count, now, merges>>
    /\ UNCHANGED simvars

\* lines 70, 113, 146: Ctrl+C while main waits in an await (or, from Python
\* 3.11, at the first await after it): asyncio.run cancels the task and
\* CancelledError, which is no Exception and no KeyboardInterrupt, leaves
\* main through both handlers: no final save, no summary
Cancelled ==
    /\ pc \in {"scan", "sleep"}
    /\ pc' = "cancelled"
    /\ timestamp' = 0
    /\ devices' = 0
    /\ device' = None
    /\ UNCHANGED <<all_devices, scan_count, now, file, merges>>
    /\ UNCHANGED simvars

Next ==
    \/ ScanStart
    \/ Discover
    \/ DiscoverFails
    \/ MergeOne
    \/ Save
    \/ ScanError
    \/ Sleep
    \/ Interrupt
    \/ Cancelled

Spec == Init /\ [][Next]_vars

\* The scanner with saves that can fail, over plain devices.
MergePlain == MergeOf(PlainDevices)

NextSave ==
    \/ ScanStart
    \/ Discover
    \/ DiscoverFails
    \/ MergePlain
    \/ Save
    \/ SaveFails
    \/ ScanError
    \/ Sleep
    \/ Interrupt
    \/ Cancelled

SpecSave == Init /\ [][NextSave]_vars

\* ============================================================ broadcaster
\* Registries bluetooth_devices.json can hold when the broadcaster starts:
\* n named and u unknown records, in this key order.
NamedPool == <<"N01", "N02", "N03", "N04", "N05", "N06", "N07", "N08", "N09",
               "N10", "N11">>
UnknownPool == <<"U01", "U02", "U03", "U04", "U05", "U06", "U07", "U08", "U09",
                 "U10", "U11", "U12", "U13", "U14", "U15", "U16", "U17">>
RegistryShapes == {<<0, 0>>, <<1, 3>>, <<1, 9>>, <<0, 10>>, <<1, 16>>, <<11, 2>>}

Prefix(seq, n) == {seq[i] : i \in 1..n}

SavedRegistry(n, u) ==
    [a \in Prefix(NamedPool, n) \cup Prefix(UnknownPool, u) |->
        [name |-> IF a \in Prefix(NamedPool, n) THEN "Foo" ELSE "Unknown",
         address |-> a, rssi |-> Some(-60), last_seen |-> 1, first_seen |-> 1,
         times_seen |-> 1]]

\* the keys of a loaded registry in the order the file lists them
KeyOrder(registry) ==
    SelectSeq(NamedPool \o UnknownPool \o <<"A", "B", "null">>,
              LAMBDA a : a \in DOMAIN registry)
IndexOf(seq, a) == CHOOSE i \in 1..Len(seq) : seq[i] = a

\* The random draws are taken from these families.
\* line 47: one baseline per address; base b gives address number i the
\* value RSSI_LO + (b + 7 i) mod 26
InitBases == {0, 9}
InitialRssi(registry, b) ==
    [a \in DOMAIN registry |->
        RSSI_LO + ((b + 7 * IndexOf(KeyOrder(registry), a)) % (RSSI_HI - RSSI_LO + 1))]
\* line 100: the sample is k consecutive unknown addresses from an offset
Sample(unknown_addrs, k, off) ==
    {unknown_addrs[((off + j) % Len(unknown_addrs)) + 1] : j \in 0..(k - 1)}
\* line 111: the changes are c1 for odd-numbered addresses, c2 for the others
\* One draw of the cycle's randomness: <<offset of the sample, c1, c2>>
Draws == {<<0, -RSSI_FLUCTUATION, -RSSI_FLUCTUATION>>,
          <<1, RSSI_FLUCTUATION, RSSI_FLUCTUATION>>,
          <<0, RSSI_FLUCTUATION, -RSSI_FLUCTUATION>>,
          <<1, 0, 3>>}

\* lines 96-99: the bounds of random.randint for num_unknown
SampleLo(named_count) == Max(0, MIN_VISIBLE_DEVICES - named_count)
\* variant: the sample size is not capped
SampleHi_NoCap(unknown_count) == unknown_count
SampleHi(unknown_count) == Min(unknown_count, MAX_SAMPLE)

\* variant: the visible list starts empty
InitialVisible_Empty(named_addrs) == {}
\* line 93: visible = named_addrs.copy()
InitialVisible(named_addrs) == named_addrs

\* variant: only the upper end is clamped
Clamp_NoFloor(x) == Min(RSSI_HI, x)
\* variant: min and max are swapped
Clamp_Swapped(x) == Min(RSSI_LO, Max(RSSI_HI, x))
\* line 112: clamp into RSSI_RANGE
Clamp(x) == Max(RSSI_LO, Min(RSSI_HI, x))

\* lines 89-90
NamedAddrs(registry) ==
    SelectSeq(KeyOrder(registry), LAMBDA a : registry[a].name # "Unknown")
UnknownAddrs(registry) ==
    SelectSeq(KeyOrder(registry), LAMBDA a : registry[a].name = "Unknown")
Range(seq) == {seq[i] : i \in 1..Len(seq)}

\* lines 115-123 (isConnectable, an independent coin per view, is not carried)
View(rec, addr, new_rssi, t) ==
    [address |-> addr, name |-> rec.name, rssi |-> new_rssi, lastSeen |-> t,
     firstSeen |-> rec.first_seen, timesSeen |-> rec.times_seen]

\* variant: the key has rssi where the code has -rssi
SortsBefore_WeakestFirst(x, y) ==
    LET kx == IF x.name = "Unknown" THEN 1 ELSE 0
        ky == IF y.name = "Unknown" THEN 1 ELSE 0
    IN kx < ky \/ (kx = ky /\ x.rssi < y.rssi)

\* line 132: key(x) < key(y) for the key (x["name"] == "Unknown", -x["rssi"])
SortsBefore(x, y) ==
    LET kx == IF x.name = "Unknown" THEN 1 ELSE 0
        ky == IF y.name = "Unknown" THEN 1 ELSE 0
    IN kx < ky \/ (kx = ky /\ (0 - x.rssi) < (0 - y.rssi))

\* sorted() is stable: x goes behind every element it does not sort before
RECURSIVE Insert(_, _)
Insert(sorted, x) ==
    IF sorted = <<>> THEN <<x>>
    ELSE IF SortsBefore(x, Head(sorted)) THEN <<x>> \o sorted
    ELSE <<Head(sorted)>> \o Insert(Tail(sorted), x)

RECURSIVE SortedViews(_)
SortedViews(views) ==
    IF views = <<>> THEN <<>>
    ELSE Insert(SortedViews(SubSeq(views, 1, Len(views) - 1)), views[Len(views)])

\* line 131: devices.values(); the dict lists its views in the order they
\* were inserted, taken to be key order
Values(visible_devices) ==
    LET order == KeyOrder(visible_devices)
    IN [i \in 1..Len(order) |-> visible_devices[order[i]]]

\* lines 130-133: device_list = sorted(devices.values(), key=...)
DeviceList(visible_devices) == SortedViews(Values(visible_devices))

InitSim ==
    /\ pc = "loop"
    /\ all_devices = <<>>
    /\ scan_count = 0
    /\ timestamp = 0
    /\ devices = 0
    /\ device = None
    /\ now = 2
    /\ merges = [a \in Addresses |-> 0]
    /\ \/ file = None
       \/ \E shape \in RegistryShapes :
            file = Some(JsonDump(SavedRegistry(shape[1], shape[2])))
    /\ spc = "start"
    /\ self_all_devices = <<>>
    /\ self_device_rssi = <<>>
    /\ self_visible_devices = <<>>
    /\ cycle = 0
    /\ temp_file = None

\* lines 36-47: load_devices
LoadDevices ==
    /\ spc = "start"
    /\ file # None
    /\ self_all_devices' = JsonLoad(file[1])
    /\ \E b \in InitBases :
          self_device_rssi' = InitialRssi(self_all_devices', b)
    /\ spc' = "check_adb"
    /\ UNCHANGED <<self_visible_devices, cycle, temp_file, scanvars, now, file>>

\* lines 37-40: the input file is missing, sys.exit(1)
LoadDevicesMissing ==
    /\ spc = "start"
    /\ file = None
    /\ spc' = "exit"
    /\ UNCHANGED <<self_all_devices, self_device_rssi, self_visible_devices,
                   cycle, temp_file, scanvars, now, file>>

\* lines 175-176: check_adb succeeds, or fails and run exits
CheckAdb ==
    /\ spc = "check_adb"
    /\ \E ok \in BOOLEAN : spc' = IF ok THEN "loop" ELSE "exit"
    /\ UNCHANGED <<self_all_devices, self_device_rssi, self_visible_devices,
                   cycle, temp_file, scanvars, now, file>>

\* lines 184-187 with 85-125: cycle += 1; visible = self.simulate_scan_cycle()
SimulateScanCycle ==
    /\ spc = "loop"
    /\ cycle < MaxCycles
    /\ LET named_addrs == NamedAddrs(self_all_devices)
           unknown_addrs == UnknownAddrs(self_all_devices)
           lo == SampleLo(Len(named_addrs))
           hi == SampleHi(Len(unknown_addrs))
           order == KeyOrder(self_all_devices)
       IN /\ lo <= hi
          /\ \E num_unknown \in lo..hi, draw \in Draws :
                LET visible == InitialVisible(Range(named_addrs))
                                 \cup Sample(unknown_addrs, num_unknown, draw[1])
                    change(a) == IF IndexOf(order, a) % 2 = 1 THEN draw[2] ELSE draw[3]
                    new_rssi(a) == Clamp(self_device_rssi[a] + change(a))
                IN /\ self_device_rssi' =
                        [a \in DOMAIN self_device_rssi |->
                            IF a \in visible THEN new_rssi(a)
                            ELSE self_device_rssi[a]]
                   /\ self_visible_devices' =
                        [a \in visible |->
                            View(self_all_devices[a], a, new_rssi(a), now)]
    /\ cycle' = cycle + 1
    /\ spc' = "push"
    /\ UNCHANGED <<self_all_devices, temp_file, scanvars, now, file>>

\* lines 96-99: random.randint raises ValueError on an empty range; run
\* catches KeyboardInterrupt only, so the program ends with the traceback
SimulateScanCycleRaises ==
    /\ spc = "loop"
    /\ cycle < MaxCycles
    /\ SampleLo(Len(NamedAddrs(self_all_devices)))
         > SampleHi(Len(UnknownAddrs(self_all_devices)))
    /\ cycle' = cycle + 1
    /\ spc' = "crashed"
    /\ UNCHANGED <<self_all_devices, self_device_rssi, self_visible_devices,
                   temp_file, scanvars, now, file>>

\* lines 127-149: push_to_emulator writes the sorted list to the temp file,
\* then returns True, or False on CalledProcessError
PushToEmulator ==
    /\ spc = "push"
    /\ temp_file' = Some(DeviceList(self_visible_devices))
    /\ \E pushed \in BOOLEAN : spc' = IF pushed THEN "report" ELSE "sleep"
    /\ UNCHANGED <<self_all_devices, self_device_rssi, self_visible_devices,
                   cycle, scanvars, now, file>>

\* lines 137-145: open raises OSError (temp file not writable) and the file
\* stays as it was, or subprocess.run does (adb not executable) with the file
\* written; neither push_to_emulator nor run catches it
PushToEmulatorRaises ==
    /\ spc = "push"
    /\ \/ temp_file' = temp_file
       \/ temp_file' = Some(DeviceList(self_visible_devices))
    /\ spc' = "crashed"
    /\ UNCHANGED <<self_all_devices, self_device_rssi, self_visible_devices,
                   cycle, scanvars, now, file>>

\* lines 191-204: status line and broadcast_intent
Report ==
    /\ spc = "report"
    /\ spc' = "sleep"
    /\ UNCHANGED <<self_all_devices, self_device_rssi, self_visible_devices,
                   cycle, temp_file, scanvars, now, file>>

\* line 206: time.sleep(UPDATE_INTERVAL)
SimSleep ==
    /\ spc = "sleep"
    /\ now' = now + 1
    /\ spc' = "loop"
    /\ UNCHANGED <<self_all_devices, self_device_rssi, self_visible_devices,
                   cycle, temp_file, scanvars, file>>

\* lines 208-212: KeyboardInterrupt ends the loop
SimInterrupt ==
    /\ spc \in {"loop", "push", "report", "sleep"}
    /\ spc' = "stopped"
    /\ UNCHANGED <<self_all_devices, self_device_rssi, self_visible_devices,
                   cycle, temp_file, scanvars, now, file>>

NextSim ==
    \/ LoadDevices
    \/ LoadDevicesMissing
    \/ CheckAdb
    \/ SimulateScanCycle
    \/ SimulateScanCycleRaises
    \/ PushToEmulator
    \/ PushToEmulatorRaises
    \/ Report
    \/ SimSleep
    \/ SimInterrupt

SpecSim == InitSim /\ [][NextSim]_vars


\* ================================================================= claims
\* A step of the scanner's for loop: the next device has been merged.
MergeStep == pc = "merge" /\ pc' = "merge" /\ devices' = devices - 1

\* C1: for every address, the stored times_seen equals the number of merges
\* performed for it (and an address never merged has no record).
C1_TimesSeenCountsMerges ==
    \A a \in Addresses :
        IF a \in DOMAIN all_devices
        THEN all_devices[a].times_seen = merges[a]
        ELSE merges[a] = 0
C1_Witness ==
    \E a \in DOMAIN all_devices : all_devices[a].times_seen = 3

\* C2: a step changes a stored name only by merging a sighting of that
\* address whose name is neither empty nor "Unknown" into a record named
\* "Unknown", and the name becomes the sighting's name; a name that is not
\* "Unknown" stays as it is.
C2_NameOnlyUpgradedFromUnknown ==
    [][\A a \in DOMAIN all_devices :
          /\ a \in DOMAIN all_devices'
          /\ all_devices'[a].name # all_devices[a].name =>
                /\ MergeStep
                /\ device'.address = a
                /\ all_devices[a].name = "Unknown"
                /\ device'.name \notin {NoneStr, "", "Unknown"}
                /\ all_devices'[a].name = device'.name
          /\ all_devices[a].name # "Unknown" =>
                all_devices'[a].name = all_devices[a].name]_vars
\* a named record has just taken a merge whose incoming name was empty or
\* "Unknown"
C2_Witness ==
    /\ pc = "merge"
    /\ device # None
    /\ device.name \in {NoneStr, "", "Unknown"}
    /\ device.address \in DOMAIN all_devices
    /\ all_devices[device.address].name = "Foo"
    /\ all_devices[device.address].times_seen >= 2

\* C3: first_seen of a record is the timestamp of the merge that created it
\* and no later step changes it.
C3_FirstSeenFixedAtCreation ==
    [][\A a \in DOMAIN all_devices' :
          IF a \in DOMAIN all_devices
          THEN all_devices'[a].first_seen = all_devices[a].first_seen
          ELSE MergeStep /\ device'.address = a
               /\ all_devices'[a].first_seen = timestamp]_vars
\* a record merged again in a later cycle, with another address created since
C3_Witness ==
    \E a, b \in DOMAIN all_devices :
        /\ a # b
        /\ all_devices[a].times_seen >= 2
        /\ all_devices[a].last_seen > all_devices[a].first_seen
        /\ all_devices[b].first_seen > all_devices[a].first_seen

\* C9: merging a sighting of an address already in the registry sets the
\* record's last_seen to the cycle's timestamp and its rssi to the sighting's
\* rssi, None when the sighting has none.
C9_ExistingMergeSetsLastSeenAndRssi ==
    [][(MergeStep /\ device'.address \in DOMAIN all_devices) =>
          /\ all_devices'[device'.address].last_seen = timestamp
          /\ all_devices'[device'.address].rssi = device'.rssi]_vars
\* a record was merged again in a later cycle by a sighting without rssi and
\* now stores None
C9_Witness ==
    /\ pc = "merge"
    /\ device # None
    /\ device.rssi = None
    /\ device.address \in DOMAIN all_devices
    /\ all_devices[device.address].times_seen >= 2
    /\ all_devices[device.address].rssi = None
    /\ all_devices[device.address].last_seen > all_devices[device.address].first_seen

\* C10: a sighting whose address is missing leaves the registry as it was.
MissingAddresses == {NoneStr, ""}
C10_MissingAddressSkipped ==
    [][(MergeStep /\ device'.address \in MissingAddresses) =>
          all_devices' = all_devices]_vars

\* ------------------------------------------------------ broadcaster claims
\* simulate_scan_cycle has returned and its result is in use
CycleDone == spc \in {"push", "report", "sleep"}
NamedCount == Len(NamedAddrs(self_all_devices))
UnknownCount == Len(UnknownAddrs(self_all_devices))
VisibleCount == Cardinality(DOMAIN self_visible_devices)

\* C4: after every completed cycle the visible addresses include every
\* registry address whose name is not "Unknown".
C4_NamedAlwaysVisible ==
    CycleDone =>
        \A a \in DOMAIN self_all_devices :
            self_all_devices[a].name # "Unknown" => a \in DOMAIN self_visible_devices
\* a cycle over a registry with a named address left some unknown one out
C4_Witness ==
    /\ CycleDone
    /\ NamedCount >= 1
    /\ \E a \in DOMAIN self_all_devices : a \notin DOMAIN self_visible_devices

\* C5: after every completed cycle the number of visible devices is at least
\* MIN_VISIBLE_DEVICES when named + unknown reach it, and at most named + 15.
C5_VisibleCountBounds ==
    CycleDone =>
        /\ NamedCount + UnknownCount >= MIN_VISIBLE_DEVICES =>
              VisibleCount >= MIN_VISIBLE_DEVICES
        /\ VisibleCount <= NamedCount + MAX_SAMPLE
\* the cap binds: more than 15 unknown addresses, exactly 15 of them visible
C5_Witness ==
    /\ CycleDone
    /\ UnknownCount > MAX_SAMPLE
    /\ VisibleCount = NamedCount + MAX_SAMPLE

\* C6: over a registry with named + unknown below MIN_VISIBLE_DEVICES a
\* cycle completes without error and shows every address of the registry.
C6_SmallRegistryAllVisible ==
    (cycle >= 1 /\ NamedCount + UnknownCount < MIN_VISIBLE_DEVICES) =>
        /\ spc # "crashed"
        /\ DOMAIN self_visible_devices = DOMAIN self_all_devices

\* C7: once loaded, every registry address has a baseline within RSSI_RANGE,
\* and so has the rssi of every view.
InBand(x) == RSSI_LO <= x /\ x <= RSSI_HI
C7_RssiWithinBand ==
    /\ spc \notin {"start", "exit"} =>
          DOMAIN self_device_rssi = DOMAIN self_all_devices
    /\ \A a \in DOMAIN self_device_rssi : InBand(self_device_rssi[a])
    /\ \A a \in DOMAIN self_visible_devices : InBand(self_visible_devices[a].rssi)
\* after two cycles one view sits on the lower end of the band and another on
\* the upper end
C7_Witness ==
    /\ cycle >= 2
    /\ CycleDone
    /\ \E a, b \in DOMAIN self_visible_devices :
          /\ self_visible_devices[a].rssi = RSSI_LO
          /\ self_visible_devices[b].rssi = RSSI_HI

\* C8: once a loop is entered, a step leaves it only on a stop request.
ScanLoop == {"loop", "scan", "merge", "except", "sleep"}
SimLoop == {"loop", "push", "report", "sleep"}
C8_LoopsEndOnlyOnStop ==
    [][/\ pc \in ScanLoop => pc' \in ScanLoop \cup {"stopped"}
       /\ spc \in SimLoop => spc' \in SimLoop \cup {"stopped"}]_vars

\* C11: a failed delivery leaves the registry and the baselines as the
\* cycle left them and the loop goes on to its sleep and the next cycle.
C11_DeliveryFailureSkipped ==
    [][(spc = "push" /\ spc' \notin {"report", "stopped"}) =>
          /\ spc' = "sleep"
          /\ self_all_devices' = self_all_devices
          /\ self_device_rssi' = self_device_rssi]_vars

\* C12: at the end of every scan cycle, successful or failed, what the file
\* holds is the whole in-memory registry as json.dump writes it.
C12_FileEqualsRegistry ==
    pc = "sleep" => load_existing_devices(file) = JsonDump(all_devices)

\* C12 as the code has it: a cycle whose save_devices returned ends with the
\* file holding the whole registry, and a cycle that failed in discovery
\* changes neither the file nor the registry, in the failing call and in the
\* handler.
C12_SavedCycleFileEqualsRegistry ==
    [][/\ (pc = "merge" /\ pc' = "sleep") =>
              load_existing_devices(file') = JsonDump(all_devices')
       /\ (pc = "scan" /\ pc' = "except") =>
              (file' = file /\ all_devices' = all_devices)
       /\ (pc = "except" /\ pc' = "sleep") =>
              (file' = file /\ all_devices' = all_devices)]_vars

\* a later cycle merged a device under the missing address and saved
C12_Witness ==
    /\ pc = "sleep"
    /\ scan_count >= 2
    /\ NoneStr \in DOMAIN all_devices
    /\ all_devices[NoneStr].last_seen = timestamp
    /\ all_devices[NoneStr].times_seen >= 2
    /\ file = save_devices(all_devices)

\* C13: a stop request lets the cycle in progress complete: the loop is never
\* left with a batch partly merged, it is left through the handler, and the
\* final save makes the file equal to the registry.
C13_StopCompletesCycleThenSaves ==
    [][(pc \in ScanLoop /\ pc' \notin ScanLoop) =>
          /\ devices = 0
          /\ pc' = "stopped"
          /\ load_existing_devices(file') = JsonDump(all_devices')]_vars

\* C14: save_devices followed by load_existing_devices gives back the
\* registry, for every registry the merges produce.
C14_SaveLoadRoundTrip ==
    load_existing_devices(save_devices(all_devices)) = all_devices

\* C15: the list delivered for a cycle is a permutation of the cycle's views
\* in which every named view precedes every "Unknown" one and, within each
\* group, rssi does not increase.
C15_DeliveredSortedPermutation ==
    spc = "report" =>
        /\ temp_file # None
        /\ LET device_list == temp_file[1]
           IN /\ Len(device_list) = Cardinality(DOMAIN self_visible_devices)
              /\ \A a \in DOMAIN self_visible_devices :
                    \E i \in 1..Len(device_list) :
                        device_list[i] = self_visible_devices[a]
              /\ \A i, j \in 1..Len(device_list) :
                    i < j =>
                        /\ device_list[i].name = "Unknown" =>
                              device_list[j].name = "Unknown"
                        /\ (device_list[i].name = "Unknown")
                              = (device_list[j].name = "Unknown") =>
                              device_list[i].rssi >= device_list[j].rssi
\* a delivered list with a named view and unknown views of different rssi
\* whose order is not the order of the dict
C15_Witness ==
    /\ spc = "report"
    /\ temp_file # None
    /\ temp_file[1] # Values(self_visible_devices)
    /\ \E i, j \in 1..Len(temp_file[1]) :
          /\ i < j
          /\ temp_file[1][1].name # "Unknown"
          /\ temp_file[1][i].name = "Unknown"
          /\ temp_file[1][i].rssi > temp_file[1][j].rssi

\* C16: one simulate_scan_cycle moves the baseline of a visible address by
\* at most RSSI_FLUCTUATION, leaves the other baselines and the registry as
\* they were, and gives each view the new baseline as its rssi.
Abs(x) == IF x < 0 THEN 0 - x ELSE x
C16_CycleFrame ==
    [][(spc = "loop" /\ spc' = "push") =>
          /\ self_all_devices' = self_all_devices
          /\ DOMAIN self_device_rssi' = DOMAIN self_device_rssi
          /\ \A a \in DOMAIN self_device_rssi :
                IF a \in DOMAIN self_visible_devices'
                THEN /\ Abs(self_device_rssi'[a] - self_device_rssi[a])
                           <= RSSI_FLUCTUATION
                     /\ self_visible_devices'[a].rssi = self_device_rssi'[a]
                ELSE self_device_rssi'[a] = self_device_rssi[a]]_vars
\* after a second cycle some address is visible, with a baseline off the ends
\* of the band, and some address is not
C16_Witness ==
    /\ cycle >= 2
    /\ CycleDone
    /\ \E a \in DOMAIN self_visible_devices :
          /\ self_visible_devices[a].rssi = self_device_rssi[a]
          /\ self_device_rssi[a] > RSSI_LO
          /\ self_device_rssi[a] < RSSI_HI
    /\ \E b \in DOMAIN self_all_devices : b \notin DOMAIN self_visible_devices
====
